---- MODULE Spec2Model ----
(***************************************************************************)
(* md2pdf: the HTML-to-Story layout scanner of HTMLToPDFConverter          *)
(* (src/src/md2pdf/pdf_generator.py), with its image acquisition, cache    *)
(* and text cleaning.                                                      *)
(*                                                                         *)
(* Text is modelled at character level: a Python str is a sequence of      *)
(* one-character strings, a list of str is a sequence of such sequences,   *)
(* and bytes are a sequence of numbers 0..255.                             *)
(***************************************************************************)
EXTENDS Integers, Sequences, FiniteSets, TLC

VARIABLES
    pc,                 \* "scan": inside the for loop of _html_to_story; "done": returned; "raised": left by an exception
    lines,              \* the lines of html.split('\n') the loop has iterated over so far
    taken,              \* history: the branch of the loop body that handled each line of `lines`
    current_paragraph,  \* local of _html_to_story
    in_code_block,      \* local of _html_to_story
    current_code_block, \* local of _html_to_story
    current_language,   \* local of _html_to_story (None is the empty string, see None)
    story,              \* self.story
    origin,             \* history: origin[k] = first and last input line of the block story[k] was made from
    para_from,          \* history: input line that opened the paragraph accumulator (0: none)
    para_to,            \* history: last input line appended to the paragraph accumulator (0: none)
    code_from,          \* history: input line that opened the code block (0: none)
    image_cache,        \* self.image_cache
    calls,              \* history: one record per call of _download_image (see Call)
    clean_pc,           \* a call of _clean_html_tags on its own: "idle", "call", "returned"
    clean_arg,          \* its argument `text`
    clean_ret,          \* its return value
    fit_pc,             \* the image fitter on its own: "idle", "call", "returned"
    fit_arg,            \* the natural size and the alt text of the image
    fit_ret,            \* the fitted image and its box (see fit_image)
    run_starts,         \* history: Len(calls) at the start of each call of convert_to_pdf
    conv_pc,            \* MarkdownToPDFConverter.convert: "idle", "read", "parse", "generate", "returned", "raised"
    conv_exc,           \* the exception that left convert (None: none)
    conv_log,           \* history: the steps of convert that ended, with their outcome
    math_pc,            \* replace_math_with_images: "idle", "call", "first", "second", "fetch", "returned"
    math_src,           \* its argument `text`
    math_text,          \* its local `text`, rebound by every replacement
    math_todo,          \* the expressions its for loop has still to process, the current one first
    math_contacts,      \* history: the requests made for the current expression, with their outcome
    math_log            \* history: one record per expression the loop has processed (see Processed)

\* The state of the layout scanner and of the converter object
scan_vars == <<pc, lines, taken, current_paragraph, in_code_block, current_code_block,
               current_language, story, origin, para_from, para_to, code_from,
               image_cache, calls>>

\* The state of a call of _clean_html_tags on its own
clean_vars == <<clean_pc, clean_arg, clean_ret>>

\* The state of the image fitter on its own
fit_vars == <<fit_pc, fit_arg, fit_ret>>

\* The state of a call of MarkdownToPDFConverter.convert
conv_vars == <<conv_pc, conv_exc, conv_log>>

\* The state of a call of MathJaxProcessor.replace_math_with_images
math_vars == <<math_pc, math_src, math_text, math_todo, math_contacts, math_log>>

\* What a step of the layout scanner leaves alone
other_vars == <<clean_vars, fit_vars, run_starts, conv_vars, math_vars>>

vars == <<scan_vars, other_vars>>

------------------------------------------------------------------------------
(* Bounds *)

\* Longest input, in lines.
MaxLines == 3

\* Most calls of convert_to_pdf on one converter.
MaxRuns == 2

\* Longest argument of _clean_html_tags on its own, in tokens (see CleanTokens).
MaxTokens == 2

\* Largest natural width and height of an image, in steps of 150 pixels.
MaxSteps == 8

------------------------------------------------------------------------------
(* Python str operations, on sequences of characters *)

NL == "\n"

Whitespace == {" ", "\t", NL}

Quotes == {"\"", "'"}

\* Python's None where a str is expected; the code only tests it for truth, and
\* every str it can stand beside is non-empty.
None == <<>>

Last(s) == s[Len(s)]

\* The element of a one-element set. {f(x) : x \in {e}} is f(e) with e evaluated once.
The(S) == CHOOSE x \in S : TRUE

\* s[i:] (1-based i)
From(s, i) == SubSeq(s, i, Len(s))

\* s[i:].startswith(p)
StartsWithAt(s, p, i) ==
    /\ i >= 1
    /\ i + Len(p) - 1 <= Len(s)
    /\ \A k \in 1..Len(p) : s[i + k - 1] = p[k]

\* s.startswith(p)
StartsWith(s, p) == StartsWithAt(s, p, 1)

\* s.find(p, i): the least index >= i where p occurs in s, 0 when there is none
Find(s, p, i) ==
    LET hits == {j \in i..(Len(s) - Len(p) + 1) : StartsWithAt(s, p, j)}
    IN  IF hits = {} THEN 0 ELSE CHOOSE j \in hits : \A m \in hits : j <= m

\* p in s
Contains(s, p) == Find(s, p, 1) # 0

\* The least index >= i of a character of s that is in set C, 0 when there is none
FindChar(s, C, i) ==
    LET hits == {j \in i..Len(s) : s[j] \in C}
    IN  IF hits = {} THEN 0 ELSE CHOOSE j \in hits : \A m \in hits : j <= m

\* The least index >= i of a character of s that is not in set C, Len(s)+1 when there is none
SkipChars(s, C, i) ==
    LET hits == {j \in i..Len(s) : s[j] \notin C}
    IN  IF hits = {} THEN Len(s) + 1 ELSE CHOOSE j \in hits : \A m \in hits : j <= m

\* s.strip()
Strip(s) ==
    LET keep == {j \in 1..Len(s) : s[j] \notin Whitespace}
    IN  IF keep = {} THEN <<>>
        ELSE SubSeq(s, CHOOSE j \in keep : \A m \in keep : j <= m,
                       CHOOSE j \in keep : \A m \in keep : j >= m)

\* s.replace(old, new): left to right, non-overlapping
RECURSIVE Replace(_, _, _)
Replace(s, old, new) ==
    LET j == Find(s, old, 1)
    IN  IF j = 0 THEN s
        ELSE SubSeq(s, 1, j - 1) \o new \o Replace(From(s, j + Len(old)), old, new)

\* sep.join(parts)
RECURSIVE Join(_, _)
Join(parts, sep) ==
    IF parts = <<>> THEN <<>>
    ELSE IF Len(parts) = 1 THEN parts[1]
    ELSE parts[1] \o sep \o Join(Tail(parts), sep)

UpperCase == <<"A","B","C","D","E","F","G","H","I","J","K","L","M",
               "N","O","P","Q","R","S","T","U","V","W","X","Y","Z">>
LowerCase == <<"a","b","c","d","e","f","g","h","i","j","k","l","m",
               "n","o","p","q","r","s","t","u","v","w","x","y","z">>

\* s.lower()
Lower(s) ==
    [j \in 1..Len(s) |->
        IF \E u \in 1..26 : UpperCase[u] = s[j]
        THEN LowerCase[CHOOSE u \in 1..26 : UpperCase[u] = s[j]]
        ELSE s[j]]

\* re.sub(open + r'[^>]+>', '', s) for a literal prefix `open` ('<' or '</'):
\* at each position, leftmost first, the prefix, then one or more characters
\* other than '>' (a newline is one), then '>'.
RECURSIVE ReSubTag(_, _)
ReSubTag(s, open) ==
    IF s = <<>> THEN <<>>
    ELSE LET close == FindChar(s, {">"}, Len(open) + 1)
         IN  IF StartsWith(s, open) /\ close >= Len(open) + 2
             THEN ReSubTag(From(s, close + 1), open)
             ELSE <<s[1]>> \o ReSubTag(Tail(s), open)

\* re.search(name + r'=["\']' + lit + r'([^"\']{min,})["\']', s): group 1 of the
\* leftmost match, as [found, group]. A match at j is the name, '=', a quote,
\* the literal, at least min characters that are no quote, and a quote.
AttrSearch(s, name, lit, min) ==
    LET pre == name \o <<"=">>
        grp(j) == j + Len(pre) + 1 + Len(lit)      \* where group 1 starts
        end(j) == FindChar(s, Quotes, grp(j))        \* the closing quote
        ok(j) == /\ StartsWithAt(s, pre, j)
                 /\ j + Len(pre) <= Len(s)
                 /\ s[j + Len(pre)] \in Quotes
                 /\ StartsWithAt(s, lit, j + Len(pre) + 1)
                 /\ end(j) # 0
                 /\ end(j) - grp(j) >= min
        hits == {j \in 1..Len(s) : ok(j)}
    IN  IF hits = {} THEN [found |-> FALSE, group |-> <<>>]
        ELSE LET j == CHOOSE j \in hits : \A m \in hits : j <= m
             IN  [found |-> TRUE, group |-> SubSeq(s, grp(j), end(j) - 1)]

\* re.sub('|'.join(lits), '', s) for a set of literals none a prefix of another
RECURSIVE ReSubLiterals(_, _)
ReSubLiterals(s, lits) ==
    IF s = <<>> THEN <<>>
    ELSE IF \E l \in lits : StartsWith(s, l)
    THEN ReSubLiterals(From(s, Len(CHOOSE l \in lits : StartsWith(s, l)) + 1), lits)
    ELSE <<s[1]>> \o ReSubLiterals(Tail(s), lits)

------------------------------------------------------------------------------
(* Literals of pdf_generator.py *)

S_code      == <<"<","c","o","d","e">>
S_pre       == <<"<","p","r","e">>
S_code_end  == <<"<","/","c","o","d","e",">">>
S_pre_end   == <<"<","/","p","r","e",">">>
S_img       == <<"<","i","m","g">>
S_quote     == <<"<","b","l","o","c","k","q","u","o","t","e",">">>
S_quote_end == <<"<","/","b","l","o","c","k","q","u","o","t","e",">">>
S_table     == <<"<","t","a","b","l","e",">">>
S_data      == <<"d","a","t","a",":">>
S_class     == <<"c","l","a","s","s">>
S_language  == <<"l","a","n","g","u","a","g","e","-">>
S_src       == <<"s","r","c">>
S_alt       == <<"a","l","t">>
S_Image     == <<"I","m","a","g","e">>
S_python    == <<"p","y","t","h","o","n">>
S_javascript == <<"j","a","v","a","s","c","r","i","p","t">>
S_js        == <<"j","s">>
S_shell     == <<"s","h","e","l","l">>
S_bash      == <<"b","a","s","h">>
S_sh        == <<"s","h">>

\* '<h1', '<h2', '<h3' and '</h1>', '</h2>', '</h3>'
Digit(level) == <<"1", "2", "3">>[level]
S_h(level) == <<"<", "h", Digit(level)>>
S_h_end(level) == <<"<", "/", "h", Digit(level), ">">>

------------------------------------------------------------------------------
(* Python float: IEEE 754 binary64 with round-to-nearest-even, for the values *)
(* the image fitter computes (positive, far from overflow and underflow).     *)
(* A natural number of any size is a sequence of limbs, least significant     *)
(* first and without leading zero limbs; a float is m * 2^e.                  *)

Base == 2^15

\* The limbs of a natural number n
RECURSIVE BigOf(_)
BigOf(n) == IF n = 0 THEN <<>> ELSE <<n % Base>> \o BigOf(n \div Base)

RECURSIVE BigNorm(_)
BigNorm(a) ==
    IF a = <<>> \/ Last(a) # 0 THEN a ELSE BigNorm(SubSeq(a, 1, Len(a) - 1))

\* a + b + c, for a carry c
RECURSIVE BigAdd(_, _, _)
BigAdd(a, b, c) ==
    IF a = <<>> /\ b = <<>> THEN BigOf(c)
    ELSE LET x == IF a = <<>> THEN 0 ELSE Head(a)
             y == IF b = <<>> THEN 0 ELSE Head(b)
         IN  <<(x + y + c) % Base>>
             \o BigAdd(IF a = <<>> THEN a ELSE Tail(a), IF b = <<>> THEN b ELSE Tail(b),
                       (x + y + c) \div Base)

\* The limbs of a - b - c before normalisation, for a >= b + c and a borrow c
RECURSIVE BigSubLimbs(_, _, _)
BigSubLimbs(a, b, c) ==
    IF a = <<>> THEN <<>>
    ELSE LET y == (IF b = <<>> THEN 0 ELSE Head(b)) + c
         IN  <<(Head(a) - y) % Base>>
             \o BigSubLimbs(Tail(a), IF b = <<>> THEN b ELSE Tail(b),
                            IF Head(a) < y THEN 1 ELSE 0)

BigSub(a, b) == BigNorm(BigSubLimbs(a, b, 0))

\* The sign of a - b: -1, 0 or 1
RECURSIVE BigCmpFrom(_, _, _)
BigCmpFrom(a, b, i) ==
    IF i = 0 THEN 0
    ELSE IF a[i] < b[i] THEN -1
    ELSE IF a[i] > b[i] THEN 1
    ELSE BigCmpFrom(a, b, i - 1)

BigCmp(a, b) ==
    IF Len(a) < Len(b) THEN -1
    ELSE IF Len(a) > Len(b) THEN 1
    ELSE BigCmpFrom(a, b, Len(a))

\* a * k + c, for a limb k and a carry c
RECURSIVE BigMulSmall(_, _, _)
BigMulSmall(a, k, c) ==
    IF a = <<>> THEN BigOf(c)
    ELSE <<(Head(a) * k + c) % Base>> \o BigMulSmall(Tail(a), k, (Head(a) * k + c) \div Base)

\* a * Base^n
BigShiftLimbs(a, n) == IF a = <<>> THEN a ELSE [i \in 1..n |-> 0] \o a

RECURSIVE BigMul(_, _)
BigMul(a, b) ==
    IF a = <<>> \/ b = <<>> THEN <<>>
    ELSE BigAdd(BigMulSmall(a, Head(b), 0), BigShiftLimbs(BigMul(a, Tail(b)), 1), 0)

\* The number of bits of a limb, and of a number
RECURSIVE BitLenSmall(_)
BitLenSmall(n) == IF n = 0 THEN 0 ELSE 1 + BitLenSmall(n \div 2)

BitLen(a) == IF a = <<>> THEN 0 ELSE 15 * (Len(a) - 1) + BitLenSmall(Last(a))

\* Bit i of a, bit 0 being the least significant
Bit(a, i) ==
    IF i \div 15 >= Len(a) THEN 0 ELSE (a[(i \div 15) + 1] \div 2^(i % 15)) % 2

\* a * 2^d
ShiftLeft(a, d) == BigShiftLimbs(BigMulSmall(a, 2^(d % 15), 0), d \div 15)

\* a \div k for a limb k > 0: the limbs of the quotient, from the most
\* significant limb of a down, r being the remainder so far
RECURSIVE BigDivSmallFrom(_, _, _, _)
BigDivSmallFrom(a, k, i, r) ==
    IF i = 0 THEN <<>>
    ELSE BigDivSmallFrom(a, k, i - 1, (r * Base + a[i]) % k) \o <<(r * Base + a[i]) \div k>>

\* a \div 2^d
ShiftRight(a, d) ==
    IF d \div 15 >= Len(a) THEN <<>>
    ELSE LET high == SubSeq(a, (d \div 15) + 1, Len(a))
         IN  BigNorm(BigDivSmallFrom(high, 2^(d % 15), Len(high), 0))

\* a % 2^d # 0
LowBitsSet(a, d) == \E i \in 0..(d - 1) : Bit(a, i) = 1

\* The largest limb d in lo..hi with b * d <= r, for b * lo <= r
RECURSIVE DivDigit(_, _, _, _)
DivDigit(r, b, lo, hi) ==
    IF lo = hi THEN lo
    ELSE IF BigCmp(BigMulSmall(b, (lo + hi + 1) \div 2, 0), r) <= 0
    THEN DivDigit(r, b, (lo + hi + 1) \div 2, hi)
    ELSE DivDigit(r, b, lo, ((lo + hi + 1) \div 2) - 1)

\* Long division for b # 0, limb by limb from limb i of a down: [q, r] with
\* a = q * b + r and r < b; q (not normalised) and r are the result so far
RECURSIVE BigDivFrom(_, _, _, _, _)
BigDivFrom(a, b, i, q, r) ==
    IF i = 0 THEN [q |-> BigNorm(q), r |-> r]
    ELSE The({ The({ BigDivFrom(a, b, i - 1, <<d>> \o q, BigSub(r2, BigMulSmall(b, d, 0)))
                   : d \in {DivDigit(r2, b, 0, Base - 1)} })
             : r2 \in {BigNorm(<<a[i]>> \o r)} })

BigDivMod(a, b) == BigDivFrom(a, b, Len(a), <<>>, <<>>)

\* The bits of the significand of a binary64
Precision == 53

\* m * 2^e rounded to the nearest float, ties to the even significand
FloatRound(m, e) ==
    IF BitLen(m) <= Precision THEN [m |-> m, e |-> e]
    ELSE LET d    == BitLen(m) - Precision
             kept == ShiftRight(m, d)
             up   == /\ Bit(m, d - 1) = 1
                     /\ (LowBitsSet(m, d - 1) \/ Bit(kept, 0) = 1)
         IN  [m |-> IF up THEN BigAdd(kept, <<>>, 1) ELSE kept, e |-> e + d]

\* float(n) for a natural number n below 2^31
Float(n) == [m |-> BigOf(n), e |-> 0]

\* 0.5
Half == [m |-> <<1>>, e |-> -1]

\* x * y
FloatMul(x, y) == FloatRound(BigMul(x.m, y.m), x.e + y.e)

\* x / y for y # 0: the quotient to 55 bits or more, with one more bit that
\* says whether a remainder is left, rounded
FloatDiv(x, y) ==
    LET k == IF 55 + BitLen(y.m) > BitLen(x.m) THEN 55 + BitLen(y.m) - BitLen(x.m) ELSE 0
    IN  The({ FloatRound(BigMulSmall(d.q, 2, IF d.r = <<>> THEN 0 ELSE 1), x.e - y.e - k - 1)
            : d \in {BigDivMod(ShiftLeft(x.m, k), y.m)} })

\* The sign of x - y
FloatCmp(x, y) ==
    LET e0 == IF x.e < y.e THEN x.e ELSE y.e
    IN  BigCmp(ShiftLeft(x.m, x.e - e0), ShiftLeft(y.m, y.e - e0))

------------------------------------------------------------------------------
(* Text cleaning and styles *)

\* _clean_html_tags: the five entities in the code's order, then the tags
clean_html_tags(text) ==
    LET t1 == Replace(text, <<"&","l","t",";">>, <<"<">>)
        t2 == Replace(t1, <<"&","g","t",";">>, <<">">>)
        t3 == Replace(t2, <<"&","a","m","p",";">>, <<"&">>)
        t4 == Replace(t3, <<"&","q","u","o","t",";">>, <<"\"">>)
        t5 == Replace(t4, <<"&","n","b","s","p",";">>, <<" ">>)
    IN  ReSubTag(t5, <<"<">>)

\* _get_code_style
get_code_style(language) ==
    LET lang == IF language # None THEN Lower(language) ELSE <<>>
    IN  IF lang = S_python THEN "MarkdownCodePython"
        ELSE IF lang \in {S_javascript, S_js} THEN "MarkdownCodeJavaScript"
        ELSE IF lang \in {S_shell, S_bash, S_sh} THEN "MarkdownCodeShell"
        ELSE "MarkdownCode"

CodeStyles == {"MarkdownCode", "MarkdownCodePython", "MarkdownCodeJavaScript", "MarkdownCodeShell"}

\* 'CustomHeading1' .. 'CustomHeading3'
HeadingStyle(level) == <<"CustomHeading1", "CustomHeading2", "CustomHeading3">>[level]

\* reportlab's Paragraph(text, self.styles[style])
Paragraph(text, style) == [type |-> "Paragraph", style |-> style, text |-> text]

\* add_paragraph without the test of line 362: the cleaned text is appended
\* whether it is empty or not
add_paragraph_unchecked(st, text) ==
    IF Strip(text) = <<>> THEN st
    ELSE Append(st, Paragraph(clean_html_tags(text), "Normal"))

\* _add_paragraph, on the story: the story after the call
add_paragraph(st, text) ==
    IF Strip(text) = <<>> THEN st
    ELSE LET clean_text == clean_html_tags(text)
         IN  IF Strip(clean_text) # <<>>
             THEN Append(st, Paragraph(clean_text, "Normal"))
             ELSE st

\* re.match(r'<hN(?:\s+id="([^"]+)")?>(.*?)</hN>', line): [found, text]
HeadingMatch(line, level) ==
    LET open == Len(S_h(level)) + 1
        ws   == SkipChars(line, Whitespace, open)
        q    == FindChar(line, {"\""}, ws + 4)
        \* the index where group 2 starts, 0 when the opening tag does not match
        body == IF ~StartsWith(line, S_h(level)) THEN 0
                ELSE IF StartsWithAt(line, <<">">>, open) THEN open + 1
                ELSE IF /\ ws > open
                        /\ StartsWithAt(line, <<"i","d","=","\"">>, ws)
                        /\ q >= ws + 5
                        /\ StartsWithAt(line, <<">">>, q + 1)
                     THEN q + 2
                ELSE 0
        close == IF body = 0 THEN 0 ELSE Find(line, S_h_end(level), body)
    IN  IF close = 0 THEN [found |-> FALSE, text |-> <<>>]
        ELSE [found |-> TRUE, text |-> SubSeq(line, body, close - 1)]

------------------------------------------------------------------------------
(* Image acquisition: _download_image and _process_image *)

B64Alphabet ==
    <<"A","B","C","D","E","F","G","H","I","J","K","L","M","N","O","P",
      "Q","R","S","T","U","V","W","X","Y","Z","a","b","c","d","e","f",
      "g","h","i","j","k","l","m","n","o","p","q","r","s","t","u","v",
      "w","x","y","z","0","1","2","3","4","5","6","7","8","9","+","/">>

B64Value(c) == (CHOOSE k \in 1..Len(B64Alphabet) : B64Alphabet[k] = c) - 1

IsB64Char(c) == \E k \in 1..Len(B64Alphabet) : B64Alphabet[k] = c

\* The bytes of the base64 digits v (numbers 0..63): three for each full
\* quad, and one or two for a last quad of two or three digits
B64Bytes(v) ==
    LET digit(k) == IF k <= Len(v) THEN v[k] ELSE 0
        byte(g, n) ==   \* byte n (1..3) of quad g (0-based)
            IF n = 1 THEN digit(4 * g + 1) * 4 + digit(4 * g + 2) \div 16
            ELSE IF n = 2 THEN (digit(4 * g + 2) % 16) * 16 + digit(4 * g + 3) \div 4
            ELSE (digit(4 * g + 3) % 4) * 64 + digit(4 * g + 4)
        r == Len(v) % 4
    IN  [k \in 1..(3 * (Len(v) \div 4) + (IF r = 0 THEN 0 ELSE r - 1)) |->
            byte((k - 1) \div 3, ((k - 1) % 3) + 1)]

\* base64.b64decode(data), for base64 digits followed by '=' padding:
\* [ok, bytes]; ok = FALSE is binascii.Error (a digit count of 1 mod 4, or
\* a last quad of two or three digits without its padding)
b64decode(data) ==
    The({ IF \/ Len(body) % 4 = 0
             \/ Len(body) % 4 = 2 /\ Len(data) - Len(body) >= 2
             \/ Len(body) % 4 = 3 /\ Len(data) - Len(body) >= 1
          THEN [ok |-> TRUE, bytes |-> B64Bytes([k \in 1..Len(body) |-> B64Value(body[k])])]
          ELSE [ok |-> FALSE, bytes |-> <<>>]
        : body \in {SelectSeq(data, IsB64Char)} })

\* The first bytes of a PNG file and bytes that are no image
PngBytes == <<137, 80, 78, 71>>
JunkBytes == <<0, 0, 0>>

\* What requests.get(url, timeout=30) can do: raise (timeout, connection
\* error), answer with a non-success status (raise_for_status raises), or
\* answer 200 with some content
Responses ==
    { [kind |-> "timeout", content |-> <<>>],
      [kind |-> "status",  content |-> <<>>],
      [kind |-> "ok",      content |-> PngBytes],
      [kind |-> "ok",      content |-> JunkBytes] }

\* Image.open(image_io).verify() does not raise: the bytes are an image file
\* (PIL is outside the repository; the model knows PNG by its signature)
Verifies(bytes) == Len(bytes) >= 4 /\ SubSeq(bytes, 1, 4) = PngBytes

NoBytes == [some |-> FALSE, bytes |-> <<>>]
SomeBytes(b) == [some |-> TRUE, bytes |-> b]

\* The data-URL branch of _download_image (lines 118-122) on a cache without url
download_data(url, cache) ==
    IF FindChar(url, {","}, 1) = 0     \* header, data = url.split(',', 1): ValueError
    THEN [exc |-> TRUE, ret |-> NoBytes, cache |-> cache, io |-> "none"]
    ELSE The({ IF ~image_data.ok
               THEN [exc |-> TRUE, ret |-> NoBytes, cache |-> cache, io |-> "decode"]
               ELSE [exc |-> FALSE, ret |-> SomeBytes(image_data.bytes),
                     cache |-> (url :> image_data.bytes) @@ cache, io |-> "decode"]
             : image_data \in {b64decode(From(url, FindChar(url, {","}, 1) + 1))} })

\* download_remote without line 129: the fetched bytes are not cached
download_remote_uncached(url, cache, resp) ==
    IF resp.kind # "ok"
    THEN [exc |-> TRUE, ret |-> NoBytes, cache |-> cache, io |-> "fetch"]
    ELSE [exc |-> FALSE, ret |-> SomeBytes(resp.content), cache |-> cache, io |-> "fetch"]

\* download_remote with the cache written before raise_for_status: an answer
\* with an error status is cached as well
download_remote_cached_early(url, cache, resp) ==
    IF resp.kind = "timeout"
    THEN [exc |-> TRUE, ret |-> NoBytes, cache |-> cache, io |-> "fetch"]
    ELSE IF resp.kind = "status"
    THEN [exc |-> TRUE, ret |-> NoBytes, cache |-> (url :> resp.content) @@ cache, io |-> "fetch"]
    ELSE [exc |-> FALSE, ret |-> SomeBytes(resp.content),
          cache |-> (url :> resp.content) @@ cache, io |-> "fetch"]

\* The remote branch of _download_image (lines 125-130) on a cache without url
download_remote(url, cache, resp) ==
    IF resp.kind # "ok"     \* requests.get or raise_for_status raises
    THEN [exc |-> TRUE, ret |-> NoBytes, cache |-> cache, io |-> "fetch"]
    ELSE [exc |-> FALSE, ret |-> SomeBytes(resp.content),
          cache |-> (url :> resp.content) @@ cache, io |-> "fetch"]

\* The try block of _download_image. exc: an exception was raised in it;
\* io: the I/O it did ("none", "decode", "fetch"); cache: the cache afterwards
download_try(url, cache, resp) ==
    IF url \in DOMAIN cache
    THEN [exc |-> FALSE, ret |-> SomeBytes(cache[url]), cache |-> cache, io |-> "none"]
    ELSE IF StartsWith(url, S_data) THEN download_data(url, cache)
    ELSE download_remote(url, cache, resp)

\* download_except without the except clause: the exception leaves the method
download_uncaught(t) == t

\* `except Exception: return None` of _download_image, on the try block's outcome t
download_except(t) ==
    IF t.exc THEN [t EXCEPT !.exc = FALSE, !.ret = NoBytes] ELSE t

\* _download_image
download_image(url, cache, resp) ==
    The({ download_except(t) : t \in {download_try(url, cache, resp)} })

\* reportlab.lib.units.inch: lengths are in points
inch == 72

S_Math   == <<"M","a","t","h">>
S_math   == <<"m","a","t","h">>
S_inline == <<"i","n","l","i","n","e">>

\* fit_box without the test of the height: a math image is inline by its alt
\* text only
fit_box_by_alt(alt_text, drawHeight) ==
    LET is_math == Contains(alt_text, S_Math) \/ Contains(Lower(alt_text), S_math)
    IN  IF ~is_math
        THEN [max_width |-> Float(6 * inch), max_height |-> Float(4 * inch)]
        ELSE IF Contains(Lower(alt_text), S_inline)
        THEN [max_width |-> Float(4 * inch),
              max_height |-> FloatMul(Half, Float(inch))]
        ELSE [max_width |-> Float(5 * inch), max_height |-> Float(2 * inch)]

\* Lines 175-188: max_width and max_height for an image with this alt text
\* and this img.drawHeight (the natural height, a whole number)
fit_box(alt_text, drawHeight) ==
    LET is_math == Contains(alt_text, S_Math) \/ Contains(Lower(alt_text), S_math)
    IN  IF ~is_math
        THEN [max_width |-> Float(6 * inch), max_height |-> Float(4 * inch)]
        ELSE IF Contains(Lower(alt_text), S_inline) \/ drawHeight < 30
        THEN [max_width |-> Float(4 * inch),
              max_height |-> FloatMul(Half, Float(inch))]
        ELSE [max_width |-> Float(5 * inch), max_height |-> Float(2 * inch)]

\* fit_width without the division: the height is left as it is
fit_width_only(img, box) ==
    IF FloatCmp(img.drawWidth, box.max_width) > 0
    THEN [img EXCEPT !.drawWidth = box.max_width, !.scaled_width = TRUE]
    ELSE img

\* Lines 190-192: if img.drawWidth > max_width
fit_width(img, box) ==
    IF FloatCmp(img.drawWidth, box.max_width) > 0
    THEN [img EXCEPT !.drawHeight = FloatMul(img.drawHeight,
                                             FloatDiv(box.max_width, img.drawWidth)),
                     !.drawWidth = box.max_width,
                     !.scaled_width = TRUE]
    ELSE img

\* fit_height without the test: the height step is never taken
fit_height_never(img, box) == img

\* fit_height without line 195: the width is left as it is
fit_height_only(img, box) ==
    IF FloatCmp(img.drawHeight, box.max_height) > 0
    THEN [img EXCEPT !.drawHeight = box.max_height, !.scaled_height = TRUE]
    ELSE img

\* Lines 194-196: if img.drawHeight > max_height
fit_height(img, box) ==
    IF FloatCmp(img.drawHeight, box.max_height) > 0
    THEN [img EXCEPT !.drawWidth = FloatMul(img.drawWidth,
                                            FloatDiv(box.max_height, img.drawHeight)),
                     !.drawHeight = box.max_height,
                     !.scaled_height = TRUE]
    ELSE img

\* Lines 170-198: RLImage(image_io) of natural size width x height, fitted.
\* scaled_width, scaled_height: history, the steps that were applied
fit_image(width, height, alt_text) ==
    The({ [box |-> box,
           img |-> The({ fit_height(w, box)
                       : w \in {fit_width([drawWidth |-> Float(width),
                                           drawHeight |-> Float(height),
                                           scaled_width |-> FALSE,
                                           scaled_height |-> FALSE], box)} })]
        : box \in {fit_box(alt_text, height)} })

NoImage == [type |-> "None"]

\* reportlab's Image on the verified bytes, as _process_image returns it
RLImage(src, alt_text) == [type |-> "RLImage", src |-> src, alt |-> alt_text]

\* The history record of one call _download_image(url) with outcome d, made
\* by a _process_image that got as far as `stage`
Call(url, cache, d, stage) ==
    [url |-> url, hit |-> url \in DOMAIN cache, io |-> d.io, ok |-> d.ret.some,
     stage |-> stage]

\* Lines 152-198 of _process_image, on the outcome d of _download_image(src)
process_downloaded(src, alt_text, cache, d) ==
    LET result(img, exc, stage) ==
            [img |-> img, exc |-> exc, stage |-> stage, cache |-> d.cache,
             call |-> <<Call(src, cache, d, stage)>>]
    IN  IF d.exc            \* line 151 is outside every try block
        THEN result(NoImage, TRUE, "acquire")
        ELSE IF ~d.ret.some                 \* if not image_io: return None
        THEN result(NoImage, FALSE, "acquire")
        ELSE IF ~Verifies(d.ret.bytes)      \* verify() raised: return None
        THEN result(NoImage, FALSE, "verify")
        ELSE result(RLImage(src, alt_text), FALSE, "fit")

\* Lines 144-198 of _process_image, for the src and alt text found in the tag
process_src(src, alt_text, cache, resp) ==
    The({ process_downloaded(src, alt_text, cache, d)
        : d \in {download_image(src, cache, resp)} })

\* _process_image. img: the return value (NoImage is None); exc: an exception
\* left the method; stage: how far it got ("no_src", "acquire", "verify",
\* "fit"); cache: the cache afterwards; call: the _download_image calls made
process_image(img_tag, cache, resp) ==
    The({ IF ~src_match.found
          THEN [img |-> NoImage, exc |-> FALSE, stage |-> "no_src", cache |-> cache,
                call |-> <<>>]
          ELSE process_src(src_match.group,
                           IF alt_match.found THEN alt_match.group ELSE S_Image,
                           cache, resp)
        : src_match \in {AttrSearch(img_tag, S_src, <<>>, 1)},
          alt_match \in {AttrSearch(img_tag, S_alt, <<>>, 0)} })

------------------------------------------------------------------------------
(* The input: lines of markup as the upstream Markdown transformation writes them *)

\* a blank line
L_blank == <<" ">>
\* <p>a</p>: a line of paragraph text
L_p == <<"<","p",">","a","<","/","p",">">>
\* <td>c</td>: a cell of a table
L_td == <<"<","t","d",">","c","<","/","t","d",">">>
\* </table>: the end of a table: a line of tags only
L_table_end == <<"<","/","t","a","b","l","e",">">>
\* <table>: a table's opening marker
L_table == <<"<","t","a","b","l","e",">">>
\* <pre><code class="language-js">x: a code-opening line with a language and first content
L_code_js == <<"<","p","r","e",">","<","c","o","d","e"," ","c","l","a","s","s","=","\"","l","a","n","g","u","a","g","e","-","j","s","\"",">","x">>
\* </code></pre>: a code-closing line
L_code_end == <<"<","/","c","o","d","e",">","<","/","p","r","e",">">>
\* <h2 id="t">T</h2>: a heading with an anchor id
L_h2 == <<"<","h","2"," ","i","d","=","\"","t","\"",">","T","<","/","h","2",">">>
\* <h3><code>x</code></h3>: a heading with inline code: <code and </code> on one line
L_h3_code == <<"<","h","3",">","<","c","o","d","e",">","x","<","/","c","o","d","e",">","<","/","h","3",">">>
\* <img src="http://h/i" alt="A">: an image at a remote address
L_img_url == <<"<","i","m","g"," ","s","r","c","=","\"","h","t","t","p",":","/","/","h","/","i","\""," ","a","l","t","=","\"","A","\"",">">>
\* <img src="data:,iVBORw==" alt="m">: an image in a data URL whose payload decodes to a PNG signature
L_img_png == <<"<","i","m","g"," ","s","r","c","=","\"","d","a","t","a",":",",","i","V","B","O","R","w","=","=","\""," ","a","l","t","=","\"","m","\"",">">>
\* <img src="data:,A" alt="m">: an image in a data URL whose payload is no base64
L_img_bad == <<"<","i","m","g"," ","s","r","c","=","\"","d","a","t","a",":",",","A","\""," ","a","l","t","=","\"","m","\"",">">>
\* <blockquote>q</blockquote>: a blockquote
L_quote == <<"<","b","l","o","c","k","q","u","o","t","e",">","q","<","/","b","l","o","c","k","q","u","o","t","e",">">>

Lines == {L_blank, L_p, L_td, L_table_end, L_table, L_code_js, L_code_end, L_h2, L_h3_code, L_img_url, L_img_png, L_img_bad, L_quote}

\* Inputs of code blocks: an opening line for each language tag the code
\* knows and for one it does not know, one without a tag, a line with a marker
\* and a tag that is no opening line when a block is open, and the lines
\* that close a block and surround it
OpenerFor(language) ==
    <<"<","p","r","e",">","<","c","o","d","e"," ","c","l","a","s","s","=","\"">>
    \o S_language \o language \o <<"\"",">","x">>

CodeLanguages == {S_python, S_javascript, S_js, S_shell, S_bash, S_sh, <<"c">>}

\* "<pre><code>x"
L_code_plain == <<"<","p","r","e",">","<","c","o","d","e",">","x">>

\* "<code class='language-python'>y"
L_code_py ==
    <<"<","c","o","d","e"," ","c","l","a","s","s","=","'">> \o S_language \o S_python
    \o <<"'",">","y">>

CodeLines ==
    {OpenerFor(language) : language \in CodeLanguages}
    \cup {L_code_plain, L_code_py, L_code_end, L_p, L_blank}

\* Inputs of image lines: text before an img tag, and two img tags on a line
\* "t <img src="data:,iVBORw==" alt="m">"
L_img_text == <<"t", " ">> \o L_img_png
\* "t <img src="data:,iVBORw==" alt="m"><img src="http://h/i" alt="A">"
L_img_two == L_img_text \o L_img_url
\* "<img src="http://h/i" alt="A"><img src="data:,iVBORw==" alt="m"> t"
L_img_url_png == L_img_url \o L_img_png \o <<" ", "t">>

ImageLines == {L_p, L_img_text, L_img_two, L_img_url_png}

------------------------------------------------------------------------------
(* _html_to_story: the loop body, one action per branch *)

\* Branch without the test of line 275: a body line of an open code block
\* falls through to the branches below it
BranchWithoutBody(line, in_code) ==
    IF line = <<>> THEN "blank"
    ELSE IF Contains(line, S_code) \/ Contains(line, S_pre) THEN "code_marker"
    ELSE IF in_code /\ (Contains(line, S_code_end) \/ Contains(line, S_pre_end)) THEN "code_close"
    ELSE IF StartsWith(line, S_h(1)) THEN "h1"
    ELSE IF StartsWith(line, S_h(2)) THEN "h2"
    ELSE IF StartsWith(line, S_h(3)) THEN "h3"
    ELSE IF Contains(line, S_img) THEN "image"
    ELSE IF StartsWith(line, S_quote) THEN "blockquote"
    ELSE IF Contains(line, S_table) THEN "table"
    ELSE "text"

\* The branch of the loop body a stripped line takes: the if/elif chain of
\* lines 228-349, in the code's order
Branch(line, in_code) ==
    IF line = <<>> THEN "blank"
    ELSE IF Contains(line, S_code) \/ Contains(line, S_pre) THEN "code_marker"
    ELSE IF in_code /\ (Contains(line, S_code_end) \/ Contains(line, S_pre_end)) THEN "code_close"
    ELSE IF in_code THEN "code_body"
    ELSE IF StartsWith(line, S_h(1)) THEN "h1"
    ELSE IF StartsWith(line, S_h(2)) THEN "h2"
    ELSE IF StartsWith(line, S_h(3)) THEN "h3"
    ELSE IF Contains(line, S_img) THEN "image"
    ELSE IF StartsWith(line, S_quote) THEN "blockquote"
    ELSE IF Contains(line, S_table) THEN "table"
    ELSE "text"

\* The story with the history of where its elements come from
Out == [story |-> story, origin |-> origin]

\* self.story.append(element), for a block of input lines span.first..span.last
Emit(out, element, span) ==
    [story |-> Append(out.story, element), origin |-> Append(out.origin, span)]

\* if current_paragraph: self._add_paragraph('\n'.join(current_paragraph))
Flush(out) ==
    IF current_paragraph # <<>>
    THEN LET st == add_paragraph(out.story, Join(current_paragraph, NL))
         IN  IF Len(st) > Len(out.story)
             THEN Emit(out, Last(st), [first |-> para_from, last |-> para_to])
             ELSE out
    ELSE out

\* HeadingOut with the heading appended before the open paragraph is flushed
HeadingOutBeforeFlush(line, level, n) ==
    LET heading_match == HeadingMatch(line, level)
    IN  IF heading_match.found
        THEN Flush(Emit(Out, Paragraph(heading_match.text, HeadingStyle(level)), [first |-> n, last |-> n]))
        ELSE Flush(Out)

\* Lines 280-315: the story after a heading line, read as input line n
HeadingOut(line, level, n) ==
    LET heading_match == HeadingMatch(line, level)
    IN  IF heading_match.found
        THEN Emit(Flush(Out), Paragraph(heading_match.text, HeadingStyle(level)), [first |-> n, last |-> n])
        ELSE Flush(Out)

\* Lines 253-266: the code accumulator at a closing line, and the story after it
ClosedCode(line) ==
    LET rest == ReSubTag(line, <<"<", "/">>)
    IN  IF Strip(rest) # <<>> THEN Append(current_code_block, rest) ELSE current_code_block

CodeCloseOut(line, n) ==
    LET code_text == clean_html_tags(Join(ClosedCode(line), NL))
    IN  Emit(Out, Paragraph(code_text, get_code_style(current_language)), [first |-> code_from, last |-> n])

\* Lines 329-336: the story after a blockquote line
BlockquoteOut(line, n) ==
    LET text == clean_html_tags(ReSubLiterals(line, {S_quote, S_quote_end}))
    IN  Emit(Flush(Out), Paragraph(text, "BlockQuote"), [first |-> n, last |-> n])

\* Lines 318-325: the story after an image line whose _process_image gave r
ImageOut(r, n) ==
    IF r.img # NoImage /\ ~r.exc
    THEN Emit(Flush(Out), r.img, [first |-> n, last |-> n])
    ELSE Flush(Out)

\* Branch, tabulated over the input lines
BranchOf == [l \in Lines \cup CodeLines \cup ImageLines |-> [c \in BOOLEAN |-> Branch(Strip(l), c)]]

\* The loop reads input line `raw`, which takes branch b
Read(raw, b) ==
    /\ pc = "scan"
    /\ Len(lines) < MaxLines
    /\ BranchOf[raw][in_code_block] = b
    /\ lines' = Append(lines, raw)
    /\ taken' = Append(taken, b)
    /\ UNCHANGED other_vars

SetOut(out) == story' = out.story /\ origin' = out.origin

NoParagraph == current_paragraph' = <<>> /\ para_from' = 0 /\ para_to' = 0

\* Lines 227-229: a blank line is skipped
BlankLine(raw) ==
    /\ Read(raw, "blank")
    /\ UNCHANGED <<pc, current_paragraph, in_code_block, current_code_block, current_language,
                   story, origin, para_from, para_to, code_from, image_cache, calls>>

\* CodeMarkerLine with the language taken from every line with a marker, not
\* from the opening line only
CodeMarkerLineRetag(raw) ==
    LET line == Strip(raw)
        lang_match == AttrSearch(line, S_class, S_language, 1)
        content == ReSubTag(line, <<"<">>)
    IN  /\ Read(raw, "code_marker")
        /\ SetOut(Flush(Out))
        /\ NoParagraph
        /\ current_language' = IF lang_match.found THEN lang_match.group ELSE None
        /\ IF ~in_code_block
           THEN /\ in_code_block' = TRUE
                /\ current_code_block' = IF Strip(content) # <<>>
                                         THEN Append(current_code_block, content)
                                         ELSE current_code_block
                /\ code_from' = Len(lines) + 1
           ELSE /\ current_code_block' = Append(current_code_block, line)
                /\ UNCHANGED <<in_code_block, code_from>>
        /\ UNCHANGED <<pc, image_cache, calls>>

\* Lines 232-250: a line with '<code' or '<pre'
CodeMarkerLine(raw) ==
    LET line == Strip(raw)
        lang_match == AttrSearch(line, S_class, S_language, 1)
        content == ReSubTag(line, <<"<">>)
    IN  /\ Read(raw, "code_marker")
        /\ SetOut(Flush(Out))
        /\ NoParagraph
        /\ IF ~in_code_block
           THEN /\ in_code_block' = TRUE
                /\ current_language' = IF lang_match.found THEN lang_match.group ELSE None
                /\ current_code_block' = IF Strip(content) # <<>>
                                         THEN Append(current_code_block, content)
                                         ELSE current_code_block
                /\ code_from' = Len(lines) + 1
           ELSE /\ current_code_block' = Append(current_code_block, line)
                /\ UNCHANGED <<in_code_block, current_language, code_from>>
        /\ UNCHANGED <<pc, image_cache, calls>>

\* Lines 253-272: a closing marker while a code block is open
CodeCloseLine(raw) ==
    /\ Read(raw, "code_close")
    /\ SetOut(CodeCloseOut(Strip(raw), Len(lines) + 1))
    /\ in_code_block' = FALSE
    /\ current_code_block' = <<>>
    /\ current_language' = None
    /\ code_from' = 0
    /\ UNCHANGED <<pc, current_paragraph, para_from, para_to, image_cache, calls>>

\* CodeBodyLine that falls through to line 349: the line is added to the
\* paragraph accumulator as well
CodeBodyLineInParagraph(raw) ==
    /\ Read(raw, "code_body")
    /\ current_code_block' = Append(current_code_block, Strip(raw))
    /\ current_paragraph' = Append(current_paragraph, Strip(raw))
    /\ UNCHANGED <<pc, in_code_block, current_language, story, origin,
                   para_from, para_to, code_from, image_cache, calls>>

\* Lines 275-277: any other line while a code block is open
CodeBodyLine(raw) ==
    /\ Read(raw, "code_body")
    /\ current_code_block' = Append(current_code_block, Strip(raw))
    /\ UNCHANGED <<pc, current_paragraph, in_code_block, current_language, story, origin,
                   para_from, para_to, code_from, image_cache, calls>>

\* Lines 280-315: a line that starts with '<h1', '<h2' or '<h3'
HeadingLine(raw) ==
    \E level \in 1..3 :
        /\ Read(raw, <<"h1", "h2", "h3">>[level])
        /\ SetOut(HeadingOut(Strip(raw), level, Len(lines) + 1))
        /\ NoParagraph
        /\ UNCHANGED <<pc, in_code_block, current_code_block, current_language, code_from,
                       image_cache, calls>>

\* ImageLine that falls through to line 349 after the image: the line is
\* added to the paragraph accumulator as well
ImageLineKeepsText(raw) ==
    /\ Read(raw, "image")
    /\ \E resp \in Responses :
         \E r \in {process_image(Strip(raw), image_cache, resp)} :
            /\ SetOut(ImageOut(r, Len(lines) + 1))
            /\ current_paragraph' = <<Strip(raw)>>
            /\ para_from' = Len(lines) + 1
            /\ para_to' = Len(lines) + 1
            /\ image_cache' = r.cache
            /\ calls' = calls \o r.call
            /\ pc' = IF r.exc THEN "raised" ELSE pc
            /\ UNCHANGED <<in_code_block, current_code_block, current_language, code_from>>

\* Lines 318-326: a line with '<img'
ImageLine(raw) ==
    /\ Read(raw, "image")
    /\ \E resp \in Responses :
         \E r \in {process_image(Strip(raw), image_cache, resp)} :
            /\ SetOut(ImageOut(r, Len(lines) + 1))
            /\ NoParagraph
            /\ image_cache' = r.cache
            /\ calls' = calls \o r.call
            /\ pc' = IF r.exc THEN "raised" ELSE pc
            /\ UNCHANGED <<in_code_block, current_code_block, current_language, code_from>>

\* Lines 329-337: a line that starts with '<blockquote>'
BlockquoteLine(raw) ==
    /\ Read(raw, "blockquote")
    /\ SetOut(BlockquoteOut(Strip(raw), Len(lines) + 1))
    /\ NoParagraph
    /\ UNCHANGED <<pc, in_code_block, current_code_block, current_language, code_from,
                   image_cache, calls>>

\* Lines 340-345: a line with '<table>'
TableLine(raw) ==
    /\ Read(raw, "table")
    /\ SetOut(Flush(Out))
    /\ NoParagraph
    /\ UNCHANGED <<pc, in_code_block, current_code_block, current_language, code_from,
                   image_cache, calls>>

\* Lines 348-349: regular paragraph content
TextLine(raw) ==
    /\ Read(raw, "text")
    /\ current_paragraph' = Append(current_paragraph, Strip(raw))
    /\ para_from' = IF current_paragraph = <<>> THEN Len(lines) + 1 ELSE para_from
    /\ para_to' = Len(lines) + 1
    /\ UNCHANGED <<pc, in_code_block, current_code_block, current_language, story, origin,
                   code_from, image_cache, calls>>

\* EndOfInput without lines 352-353: the loop ends and nothing is flushed
EndOfInputNoFlush ==
    /\ pc = "scan"
    /\ pc' = "done"
    /\ UNCHANGED <<lines, taken, current_paragraph, in_code_block, current_code_block,
                   current_language, story, origin, para_from, para_to, code_from,
                   image_cache, calls>>
    /\ UNCHANGED other_vars

\* Lines 351-353: the loop is over; the remaining paragraph is added
EndOfInput ==
    /\ pc = "scan"
    /\ pc' = "done"
    /\ SetOut(Flush(Out))
    /\ UNCHANGED <<lines, taken, current_paragraph, in_code_block, current_code_block,
                   current_language, para_from, para_to, code_from, image_cache, calls>>
    /\ UNCHANGED other_vars

\* No call of _clean_html_tags on its own is under way
CleanIdle == clean_pc = "idle" /\ clean_arg = <<>> /\ clean_ret = <<>>

\* The image fitter on its own is not under way
FitIdle == fit_pc = "idle" /\ fit_arg = <<>> /\ fit_ret = <<>>

\* MarkdownToPDFConverter.convert is not under way
ConvertIdle == conv_pc = "idle" /\ conv_exc = <<>> /\ conv_log = <<>>

\* MathJaxProcessor.replace_math_with_images is not under way
MathIdle ==
    /\ math_pc = "idle"
    /\ math_src = <<>>
    /\ math_text = <<>>
    /\ math_todo = <<>>
    /\ math_contacts = <<>>
    /\ math_log = <<>>

\* Lines 27-32, 219-224, 381: a new converter and the locals of _html_to_story
NewState ==
    /\ lines = <<>>
    /\ taken = <<>>
    /\ current_paragraph = <<>>
    /\ in_code_block = FALSE
    /\ current_code_block = <<>>
    /\ current_language = None
    /\ story = <<>>
    /\ origin = <<>>
    /\ para_from = 0
    /\ para_to = 0
    /\ code_from = 0
    /\ image_cache = <<>>
    /\ calls = <<>>
    /\ run_starts = <<0>>

\* A new converter at the start of _html_to_story
NewConverter == pc = "scan" /\ NewState

Init == NewConverter /\ CleanIdle /\ FitIdle /\ ConvertIdle /\ MathIdle

Next ==
    \/ \E raw \in Lines : BlankLine(raw)
    \/ \E raw \in Lines : CodeMarkerLine(raw)
    \/ \E raw \in Lines : CodeCloseLine(raw)
    \/ \E raw \in Lines : CodeBodyLine(raw)
    \/ \E raw \in Lines : HeadingLine(raw)
    \/ \E raw \in Lines : ImageLine(raw)
    \/ \E raw \in Lines : BlockquoteLine(raw)
    \/ \E raw \in Lines : TableLine(raw)
    \/ \E raw \in Lines : TextLine(raw)
    \/ EndOfInput

Spec == Init /\ [][Next]_vars

\* Lines 379-384: convert_to_pdf is called again on the same converter, after
\* an earlier call has returned. self.story is reset and _html_to_story
\* starts with new locals; self.image_cache is what the earlier calls left.
ConvertToPdfAgain ==
    /\ pc = "done"
    /\ Len(run_starts) < MaxRuns
    /\ pc' = "scan"
    /\ story' = <<>>
    /\ origin' = <<>>
    /\ lines' = <<>>
    /\ taken' = <<>>
    /\ current_paragraph' = <<>>
    /\ in_code_block' = FALSE
    /\ current_code_block' = <<>>
    /\ current_language' = None
    /\ para_from' = 0
    /\ para_to' = 0
    /\ code_from' = 0
    /\ run_starts' = Append(run_starts, Len(calls))
    /\ UNCHANGED <<image_cache, calls, clean_vars, fit_vars, conv_vars, math_vars>>

\* The lines of documents of paragraphs and images
RunLines == {L_p, L_img_url, L_img_png, L_img_bad}

\* One converter, used for several documents of paragraphs and images
NextRuns ==
    \/ \E raw \in RunLines : ImageLine(raw)
    \/ \E raw \in RunLines : TextLine(raw)
    \/ EndOfInput
    \/ ConvertToPdfAgain

SpecRuns == Init /\ [][NextRuns]_vars

\* Documents of paragraphs and of image lines with text and several img tags
NextImages ==
    \/ \E raw \in ImageLines : ImageLine(raw)
    \/ \E raw \in ImageLines : TextLine(raw)
    \/ EndOfInput

SpecImages == Init /\ [][NextImages]_vars

------------------------------------------------------------------------------
(* MarkdownToPDFConverter.convert (src/src/md2pdf/converter.py) *)

\* What open() and f.read() can raise
ReadErrors == {"FileNotFoundError", "UnicodeDecodeError"}

\* What MarkdownParser.parse can raise
ParseErrors == {"ValueError"}

\* What SimpleDocTemplate.build can raise
BuildErrors == {"LayoutError", "PermissionError"}

\* raise Exception(f"{message}: {e}")
Raised(message, e) == [message |-> message, cause |-> e]

\* ReadFile without the raise of line 33: the failure is swallowed and convert
\* goes on with no content
ReadFileSwallowed ==
    /\ conv_pc = "read"
    /\ \E outcome \in {"ok"} \cup ReadErrors :
          /\ conv_pc' = "parse"
          /\ conv_exc' = None
          /\ conv_log' = Append(conv_log, IF outcome = "ok" THEN "read_ok" ELSE "read_failed")
    /\ UNCHANGED <<scan_vars, clean_vars, fit_vars, run_starts, math_vars>>

\* Lines 29-33: the input file is read
ReadFile ==
    /\ conv_pc = "read"
    /\ \E outcome \in {"ok"} \cup ReadErrors :
          IF outcome = "ok"
          THEN /\ conv_pc' = "parse"
               /\ conv_exc' = None
               /\ conv_log' = Append(conv_log, "read_ok")
          ELSE /\ conv_pc' = "raised"
               /\ conv_exc' = Raised("Failed to read input file", outcome)
               /\ conv_log' = Append(conv_log, "read_failed")
    /\ UNCHANGED <<scan_vars, clean_vars, fit_vars, run_starts, math_vars>>

\* Line 39: the markdown is parsed; an exception of the parser leaves convert
\* as it is
ParseMarkdown ==
    /\ conv_pc = "parse"
    /\ \E outcome \in {"ok"} \cup ParseErrors :
          IF outcome = "ok"
          THEN /\ conv_pc' = "generate"
               /\ conv_exc' = None
               /\ conv_log' = Append(conv_log, "parse_ok")
          ELSE /\ conv_pc' = "raised"
               /\ conv_exc' = Raised(outcome, outcome)
               /\ conv_log' = Append(conv_log, "parse_failed")
    /\ UNCHANGED <<scan_vars, clean_vars, fit_vars, run_starts, math_vars>>

\* Line 46 and lines 379-384: convert_to_pdf is called, resets the story and
\* calls _html_to_story
CallConvertToPdf ==
    /\ conv_pc = "generate"
    /\ pc = "idle"
    /\ pc' = "scan"
    /\ story' = <<>>
    /\ origin' = <<>>
    /\ UNCHANGED <<lines, taken, current_paragraph, in_code_block, current_code_block,
                   current_language, para_from, para_to, code_from, image_cache, calls>>
    /\ UNCHANGED other_vars

\* Lines 386-397 and 45-48: the document is built from the story, and convert
\* returns; an exception of _html_to_story or of the build is raised again
BuildPdf ==
    /\ conv_pc = "generate"
    /\ pc \in {"done", "raised"}
    /\ \E outcome \in (IF pc = "done" THEN {"ok"} \cup BuildErrors ELSE {"Exception"}) :
          IF outcome = "ok"
          THEN /\ conv_pc' = "returned"
               /\ conv_exc' = None
               /\ conv_log' = Append(conv_log, "generate_ok")
          ELSE /\ conv_pc' = "raised"
               /\ conv_exc' = Raised("Failed to generate PDF", outcome)
               /\ conv_log' = Append(conv_log, "generate_failed")
    /\ UNCHANGED <<scan_vars, clean_vars, fit_vars, run_starts, math_vars>>

\* convert(input_path, output_path) is called on a new MarkdownToPDFConverter
InitConvert ==
    /\ pc = "idle"
    /\ NewState
    /\ CleanIdle
    /\ FitIdle
    /\ conv_pc = "read"
    /\ conv_exc = None
    /\ conv_log = <<>>
    /\ MathIdle

NextConvert ==
    \/ ReadFile
    \/ ParseMarkdown
    \/ CallConvertToPdf
    \/ \E raw \in Lines : BlankLine(raw)
    \/ \E raw \in Lines : CodeMarkerLine(raw)
    \/ \E raw \in Lines : CodeCloseLine(raw)
    \/ \E raw \in Lines : CodeBodyLine(raw)
    \/ \E raw \in Lines : HeadingLine(raw)
    \/ \E raw \in Lines : ImageLine(raw)
    \/ \E raw \in Lines : BlockquoteLine(raw)
    \/ \E raw \in Lines : TableLine(raw)
    \/ \E raw \in Lines : TextLine(raw)
    \/ EndOfInput
    \/ BuildPdf

SpecConvert == InitConvert /\ [][NextConvert]_vars

\* The scanner on inputs of code blocks and paragraphs
NextCode ==
    \/ \E raw \in CodeLines : BlankLine(raw)
    \/ \E raw \in CodeLines : CodeMarkerLine(raw)
    \/ \E raw \in CodeLines : CodeCloseLine(raw)
    \/ \E raw \in CodeLines : CodeBodyLine(raw)
    \/ \E raw \in CodeLines : TextLine(raw)
    \/ EndOfInput

SpecCode == Init /\ [][NextCode]_vars

------------------------------------------------------------------------------
(* _clean_html_tags on its own *)

E_lt   == <<"&","l","t",";">>
E_gt   == <<"&","g","t",";">>
E_amp  == <<"&","a","m","p",";">>
E_quot == <<"&","q","u","o","t",";">>
E_nbsp == <<"&","n","b","s","p",";">>

\* The pieces the arguments are made of: the five entities the code decodes,
\* their names without the ampersand, a letter, a tag and its end tag
CleanTokens ==
    { E_lt, E_gt, E_amp, E_quot, E_nbsp,
      Tail(E_lt), Tail(E_gt), Tail(E_quot), Tail(E_nbsp),
      <<"x">>, <<"<","b",">">>, <<"<","/","b",">">> }

\* "&lt;b&gt;x&amp;y&lt;/b&gt;"
EscapedBold ==
    E_lt \o <<"b">> \o E_gt \o <<"x">> \o E_amp \o <<"y">> \o E_lt \o <<"/","b">> \o E_gt

RECURSIVE Concat(_)
Concat(parts) == IF parts = <<>> THEN <<>> ELSE Head(parts) \o Concat(Tail(parts))

\* The arguments: every text of up to MaxTokens pieces, and EscapedBold
CleanArgs ==
    {EscapedBold} \cup
    UNION { { Concat(parts) : parts \in [1..n -> CleanTokens] } : n \in 0..MaxTokens }

InitClean ==
    /\ NewConverter
    /\ FitIdle
    /\ ConvertIdle
    /\ MathIdle
    /\ clean_pc = "call"
    /\ clean_arg \in CleanArgs
    /\ clean_ret = <<>>

\* Lines 365-377: _clean_html_tags(text) returns
CleanHtmlTags ==
    /\ clean_pc = "call"
    /\ clean_pc' = "returned"
    /\ clean_ret' = clean_html_tags(clean_arg)
    /\ UNCHANGED <<clean_arg, scan_vars, fit_vars, run_starts, conv_vars, math_vars>>

NextClean == CleanHtmlTags

SpecClean == InitClean /\ [][NextClean]_vars

------------------------------------------------------------------------------
(* Properties *)

\* The step reads one more input line
ReadsLine == pc = "scan" /\ Len(lines') = Len(lines) + 1

\* The stripped line the step reads
LineRead == Strip(Last(lines'))

\* C1: the Story's order is the input's block order: of two elements, the one
\* whose block ends before the other's begins comes first, and the blocks of
\* two elements never overlap.
C1_StoryOrder ==
    /\ Len(origin) = Len(story)
    /\ \A k \in DOMAIN story : 1 <= origin[k].first /\ origin[k].first <= origin[k].last
    /\ \A j, k \in DOMAIN story :
          j # k => (j < k <=> origin[j].last < origin[k].first)

\* C1: a paragraph was open when a heading line was read, and both are in the Story
C1_Witness ==
    \E k \in DOMAIN story :
        /\ k > 1
        /\ story[k].type = "Paragraph" /\ story[k].style = "CustomHeading2"
        /\ story[k - 1].type = "Paragraph" /\ story[k - 1].style = "Normal"
        /\ origin[k - 1].last < origin[k].first

\* C2: the scanner accumulates at most one block kind: the paragraph
\* accumulator is empty whenever a code block is open or code is accumulated.
C2_OneAccumulator ==
    (in_code_block \/ current_code_block # <<>>) => current_paragraph = <<>>

\* C2: a code block is open and accumulating, after a paragraph that was open
\* when its opening line was read
C2_Witness ==
    /\ in_code_block
    /\ current_code_block # <<>>
    /\ \E k \in DOMAIN story :
          /\ story[k].type = "Paragraph" /\ story[k].style = "Normal"
          /\ origin[k].last = code_from - 1

\* The step handles an image line whose _process_image does not get to the
\* fitter: no src, a failed acquisition, or bytes that do not verify
ImageFails ==
    /\ ReadsLine
    /\ Last(taken') = "image"
    /\ (calls' = calls \/ Last(calls').stage # "fit")

\* C3: an image failure is block-scoped. A step that handles an image line
\* whose image fails leaves no exception, appends nothing but the paragraph
\* that was open, leaves the scanner where a successful image leaves it (no
\* paragraph open, no code block open), and does not reach the fitter when
\* the acquisition failed.
C3_ImageFailureBlockScoped ==
    [][ImageFails =>
          /\ pc' = "scan"
          /\ story' = Flush(Out).story
          /\ current_paragraph' = <<>>
          /\ ~in_code_block' /\ current_code_block' = current_code_block
          /\ (calls' # calls /\ ~Last(calls').ok) => Last(calls').stage = "acquire"
       ]_vars

\* C3: an image line failed (no element comes from it) between a block that
\* produced an element before it and one that produced an element after it
C3_Witness ==
    \E i \in DOMAIN taken :
        /\ taken[i] = "image"
        /\ \A k \in DOMAIN origin : origin[k].first # i
        /\ \E c \in DOMAIN calls : ~calls[c].ok
        /\ \E k \in DOMAIN origin : origin[k].last < i
        /\ \E k \in DOMAIN origin : origin[k].first > i

\* C4 as stated: whatever the first acquisition of a reference did, every
\* later acquisition of it is a cache hit without fetch or decode.
C4_SecondCallAlwaysHit ==
    \A j, k \in DOMAIN calls :
        (j < k /\ calls[j].url = calls[k].url) => (calls[k].hit /\ calls[k].io = "none")

\* C4, amended: once an acquisition of a reference has succeeded, every later
\* acquisition of it is a cache hit that succeeds without fetch or decode, so
\* at most one fetch or decode of a reference succeeds; as long as none has
\* succeeded, an acquisition is no cache hit.
C4_HitAfterSuccess ==
    \A k \in DOMAIN calls :
        LET succeeded == \E j \in 1..(k - 1) : calls[j].url = calls[k].url /\ calls[j].ok
        IN  /\ succeeded => (calls[k].hit /\ calls[k].io = "none" /\ calls[k].ok)
            /\ ~succeeded => ~calls[k].hit

\* C4: a reference was acquired with success and then acquired again
C4_Witness ==
    \E j, k \in DOMAIN calls :
        /\ j < k
        /\ calls[j].url = calls[k].url
        /\ calls[j].ok /\ calls[j].io = "fetch"
        /\ calls[k].hit

\* A line of plain text: no marker of the scanner, and text left after cleaning
PlainText(raw) ==
    /\ BranchOf[raw][FALSE] = "text"
    /\ Strip(clean_html_tags(Strip(raw))) # <<>>

IsBlank(raw) == Strip(raw) = <<>>

\* The paragraphs of an input of blank and plain text lines: the maximal runs
\* of consecutive text lines, blank lines being the boundaries
ParagraphsOf(input) ==
    Cardinality({i \in DOMAIN input :
                    /\ ~IsBlank(input[i])
                    /\ (i = 1 \/ IsBlank(input[i - 1]))})

\* C5 as stated: for an input of blank and plain text lines only, the Story
\* has one element for each paragraph, a blank line separating one paragraph
\* from the next.
C5_ParagraphPerRun ==
    (pc = "done" /\ \A i \in DOMAIN lines : IsBlank(lines[i]) \/ PlainText(lines[i]))
        => Len(story) = ParagraphsOf(lines)

\* C6 as stated: when the input ends inside an open code block, the
\* accumulated code is the last element of the Story, as one code block.
C6_UnterminatedCodeFlushed ==
    (pc = "done" /\ in_code_block)
        => /\ story # <<>>
           /\ Last(story).type = "Paragraph"
           /\ Last(story).style \in CodeStyles
           /\ Last(origin).first = code_from

\* The line has a code-closing marker
HasCloseMarker(line) == Contains(line, S_code_end) \/ Contains(line, S_pre_end)

\* C7 as stated: while a code block is open, every line with a closing marker
\* appends exactly one code-block element and leaves the scanner in Idle.
C7_CloseMarkerCloses ==
    [][(ReadsLine /\ in_code_block /\ HasCloseMarker(LineRead)) =>
          /\ Len(story') = Len(story) + 1
          /\ Last(story').type = "Paragraph"
          /\ Last(story').style \in CodeStyles
          /\ ~in_code_block'
          /\ current_code_block' = <<>>
          /\ current_language' = None
       ]_vars

\* C8 as stated: every line read inside an open code block that does not
\* close it, a blank one too, adds one line to the code body.
C8_EveryBodyLineKept ==
    [][(ReadsLine /\ in_code_block /\ in_code_block') =>
          Len(current_code_block') = Len(current_code_block) + 1
       ]_vars

\* C9 as stated: a line that starts with '<h1', '<h2' or '<h3', read while
\* no code block is open, flushes the open paragraph, appends one heading
\* element of its level and leaves the scanner in Idle.
C9_HeadingEmitted ==
    [][\A level \in 1..3 :
          (ReadsLine /\ ~in_code_block /\ StartsWith(LineRead, S_h(level))) =>
             /\ Len(story') = Len(Flush(Out).story) + 1
             /\ SubSeq(story', 1, Len(story') - 1) = Flush(Out).story
             /\ Last(story').type = "Paragraph"
             /\ Last(story').style = HeadingStyle(level)
             /\ current_paragraph' = <<>>
             /\ ~in_code_block'
             /\ current_code_block' = <<>>
       ]_vars

S_table_close == <<"<","/","t","a","b","l","e",">">>

\* A row or cell line of a table: '<tr>', '<td>..</td>', '<th>', '<thead>',
\* '<tbody>' or the closing tag of one
IsRowLine(raw) ==
    /\ ~Contains(raw, S_table_close)
    /\ StartsWith(Strip(raw), <<"<", "t">>) \/ StartsWith(Strip(raw), <<"<", "/", "t">>)

\* Input line i belongs to a table of the markup: the lines from one the
\* scanner took as a table's opening marker, over row and cell lines, to the
\* line with the table's end
InTable(i) ==
    \E j \in 1..i : \E e \in i..Len(lines) :
        /\ j < e
        /\ taken[j] = "table"
        /\ Contains(lines[e], S_table_close)
        /\ \A m \in (j + 1)..(e - 1) : IsRowLine(lines[m])

\* C10 as stated: a table contributes no element: no element of the Story is
\* made of lines of a table only.
C10_TableDropped ==
    \A k \in DOMAIN story : \E i \in origin[k].first..origin[k].last : ~InTable(i)

\* The paragraph an input line i of the text branch belongs to: the text lines
\* around it up to the nearest line of another branch, blank lines being skipped
RunFirst(i) ==
    CHOOSE j \in 1..i :
        /\ taken[j] = "text"
        /\ \A m \in j..i : taken[m] \in {"text", "blank"}
        /\ \A m \in 1..(j - 1) :
              ~(taken[m] = "text" /\ \A q \in m..i : taken[q] \in {"text", "blank"})

RunLast(i) ==
    CHOOSE j \in i..Len(taken) :
        /\ taken[j] = "text"
        /\ \A m \in i..j : taken[m] \in {"text", "blank"}
        /\ \A m \in (j + 1)..Len(taken) :
              ~(taken[m] = "text" /\ \A q \in i..m : taken[q] \in {"text", "blank"})

RECURSIVE TextLinesOf(_, _)
TextLinesOf(f, l) ==
    IF f > l THEN <<>>
    ELSE (IF taken[f] = "text" THEN <<Strip(lines[f])>> ELSE <<>>) \o TextLinesOf(f + 1, l)

RunText(i) == clean_html_tags(Join(TextLinesOf(RunFirst(i), RunLast(i)), NL))

\* C11: once the scan has ended, every line that was appended to the paragraph
\* accumulator is part of exactly one element of the Story, the paragraph of
\* its run of text lines, provided that paragraph's cleaned text is not empty.
C11_ParagraphFlushed ==
    pc = "done" =>
        \A i \in DOMAIN taken :
            (taken[i] = "text" /\ Strip(RunText(i)) # <<>>) =>
                /\ Cardinality({k \in DOMAIN story :
                                  origin[k].first <= i /\ i <= origin[k].last}) = 1
                /\ \E k \in DOMAIN story :
                      /\ origin[k] = [first |-> RunFirst(i), last |-> RunLast(i)]
                      /\ story[k] = Paragraph(RunText(i), "Normal")

\* C11: the scan ended with an open paragraph of two lines, which is in the Story
C11_Witness ==
    /\ pc = "done"
    /\ lines # <<>>
    /\ taken[Len(taken)] = "text"
    /\ current_paragraph # <<>>
    /\ Len(TextLinesOf(RunFirst(Len(taken)), Len(taken))) = 2
    /\ story # <<>>
    /\ Last(origin).last = Len(lines)

------------------------------------------------------------------------------
(* The image fitter on its own *)

\* Natural widths and heights, in pixels: a small one, and 150, 300, ...
NaturalSizes == {25} \cup {150 * i : i \in 1..MaxSteps}

\* Alt texts: "Image" (the default of line 148), "inline", "math", "MATH",
\* "Inline math"
AltTexts ==
    { S_Image, S_inline, S_math, <<"M","A","T","H">>,
      <<"I","n","l","i","n","e"," ","m","a","t","h">> }

InitFit ==
    /\ NewConverter
    /\ CleanIdle
    /\ ConvertIdle
    /\ MathIdle
    /\ fit_pc = "call"
    /\ fit_arg \in [width : NaturalSizes, height : NaturalSizes, alt_text : AltTexts]
    /\ fit_ret = <<>>

\* Lines 170-198: the image is created, fitted and returned
FitImage ==
    /\ fit_pc = "call"
    /\ fit_pc' = "returned"
    /\ fit_ret' = fit_image(fit_arg.width, fit_arg.height, fit_arg.alt_text)
    /\ UNCHANGED <<fit_arg, scan_vars, clean_vars, run_starts, conv_vars, math_vars>>

NextFit == FitImage

SpecFit == InitFit /\ [][NextFit]_vars

------------------------------------------------------------------------------
(* Properties of _clean_html_tags and of the image fitter *)

\* C12 as stated: cleaning "&lt;b&gt;x&amp;y&lt;/b&gt;" gives exactly
\* "<b>x&y</b>": the angle brackets that come from decoding are kept.
C12_DecodedBracketsKept ==
    (clean_pc = "returned" /\ clean_arg = EscapedBold)
        => clean_ret = <<"<","b",">","x","&","y","<","/","b",">">>

\* C13 as stated: an entity whose ampersand is escaped as &amp; decodes to the
\* entity's text, not to the entity's character, for each of &lt;, &gt;, &quot;
\* and &nbsp;.
C13_NoDoubleDecoding ==
    \A entity \in {E_lt, E_gt, E_quot, E_nbsp} :
        (clean_pc = "returned" /\ clean_arg = E_amp \o Tail(entity))
            => clean_ret = entity

\* The role of an image, from its alt text and natural height
RoleOf(alt_text, height) ==
    IF ~Contains(Lower(alt_text), S_math) THEN "Ordinary"
    ELSE IF Contains(Lower(alt_text), S_inline) \/ height < 30 THEN "InlineMath"
    ELSE "BlockMath"

\* The box of a role in points, 72 to the inch: 6in x 4in, 4in x 0.5in, 5in x 2in
BoxOf(role) ==
    IF role = "Ordinary" THEN [max_width |-> Float(432), max_height |-> Float(288)]
    ELSE IF role = "InlineMath" THEN [max_width |-> Float(288), max_height |-> Float(36)]
    ELSE [max_width |-> Float(360), max_height |-> Float(144)]

FitBox == BoxOf(RoleOf(fit_arg.alt_text, fit_arg.height))

FloatLeq(x, y) == FloatCmp(x, y) <= 0
FloatEq(x, y) == FloatCmp(x, y) = 0

\* C14: the fitter scales down only: the final size is inside the role's box,
\* no final dimension is above its natural value, and an image that fits its
\* box keeps its natural size.
C14_ScalesDownOnly ==
    fit_pc = "returned" =>
        LET W == Float(fit_arg.width)
            H == Float(fit_arg.height)
            w == fit_ret.img.drawWidth
            h == fit_ret.img.drawHeight
        IN  /\ FloatLeq(w, FitBox.max_width)
            /\ FloatLeq(h, FitBox.max_height)
            /\ FloatLeq(w, W)
            /\ FloatLeq(h, H)
            /\ (FloatLeq(W, FitBox.max_width) /\ FloatLeq(H, FitBox.max_height))
                  => (FloatEq(w, W) /\ FloatEq(h, H))

\* C14: an image wider and higher than its box was fitted in both steps
C14_Witness ==
    /\ fit_pc = "returned"
    /\ fit_ret.img.scaled_width
    /\ fit_ret.img.scaled_height
    /\ FloatCmp(fit_ret.img.drawWidth, FitBox.max_width) < 0

\* x * n without rounding, for a float x and a natural number n
ExactMul(x, n) == [m |-> BigMul(x.m, BigOf(n)), e |-> x.e]

\* w * H and W * h, for the final size (w, h) and the natural size (W, H)
FinalByNatural == ExactMul(fit_ret.img.drawWidth, fit_arg.height)
NaturalByFinal == ExactMul(fit_ret.img.drawHeight, fit_arg.width)

\* C15 as stated: the final size (w, h) has w * H = W * h.
C15_AspectExact ==
    fit_pc = "returned" => FloatEq(FinalByNatural, NaturalByFinal)

\* x <= y * (1 + 2^-50)
WithinRounding(x, y) ==
    FloatLeq([m |-> ShiftLeft(x.m, 50), e |-> x.e],
             [m |-> BigAdd(ShiftLeft(y.m, 50), y.m, 0), e |-> y.e])

\* C15 amended: w * H and W * h differ by no more than the rounding of the
\* two divisions and two multiplications allows, a relative 2^-50, and are
\* equal when no step was applied.
C15_AspectWithinRounding ==
    fit_pc = "returned" =>
        /\ WithinRounding(FinalByNatural, NaturalByFinal)
        /\ WithinRounding(NaturalByFinal, FinalByNatural)
        /\ (~fit_ret.img.scaled_width /\ ~fit_ret.img.scaled_height)
              => FloatEq(FinalByNatural, NaturalByFinal)

\* C15: both steps were applied and w * H is not W * h
C15_Witness ==
    /\ fit_pc = "returned"
    /\ fit_ret.img.scaled_width
    /\ fit_ret.img.scaled_height
    /\ ~FloatEq(FinalByNatural, NaturalByFinal)

\* An Ordinary image of natural size 1200 x 300 has been fitted
Fitted1200x300 ==
    /\ fit_pc = "returned"
    /\ fit_arg.width = 1200
    /\ fit_arg.height = 300
    /\ RoleOf(fit_arg.alt_text, fit_arg.height) = "Ordinary"

\* C16 as stated: an Ordinary image of 1200 x 300 is fitted to 864 x 216 by
\* the width step alone.
C16_FittedTo864 ==
    Fitted1200x300 =>
        /\ FloatEq(fit_ret.img.drawWidth, Float(864))
        /\ FloatEq(fit_ret.img.drawHeight, Float(216))
        /\ ~fit_ret.img.scaled_height

\* C16 amended: an Ordinary image of 1200 x 300 is fitted to 432 x 108
\* points (6in x 1.5in) by the width step alone.
C16_FittedTo432 ==
    Fitted1200x300 =>
        /\ FloatEq(fit_ret.img.drawWidth, Float(432))
        /\ FloatEq(fit_ret.img.drawHeight, Float(108))
        /\ fit_ret.img.scaled_width
        /\ ~fit_ret.img.scaled_height

\* C16: the image of the claim has been fitted
C16_Witness == Fitted1200x300 /\ fit_ret.img.scaled_width

\* C17: the box the fitter uses is the box of the image's role.
C17_BoxOfRole ==
    fit_pc = "returned" =>
        /\ FloatEq(fit_ret.box.max_width, FitBox.max_width)
        /\ FloatEq(fit_ret.box.max_height, FitBox.max_height)

\* C17: a math image without "inline" in its alt text, inline by its height
C17_Witness ==
    /\ fit_pc = "returned"
    /\ fit_arg.alt_text = <<"M","A","T","H">>
    /\ fit_arg.height < 30
    /\ FloatEq(fit_ret.box.max_height, Float(36))

\* The language tag of an input line of CodeLines, None when it has none
LanguageTag(raw) ==
    IF \E language \in CodeLanguages : raw = OpenerFor(language)
    THEN CHOOSE language \in CodeLanguages : raw = OpenerFor(language)
    ELSE IF raw = L_code_py THEN S_python
    ELSE None

\* The style of a language tag
StyleOfTag(tag) ==
    IF tag = S_python THEN "MarkdownCodePython"
    ELSE IF tag = S_javascript \/ tag = S_js THEN "MarkdownCodeJavaScript"
    ELSE IF tag = S_shell \/ tag = S_bash \/ tag = S_sh THEN "MarkdownCodeShell"
    ELSE "MarkdownCode"

\* C18: the style of an emitted code block is the style of the language tag
\* of the line that opened it, whatever its body lines and the blocks before
\* it are; while a block is open, the language kept is the tag of its
\* opening line.
C18_StyleOfOpeningTag ==
    /\ \A k \in DOMAIN story :
          (story[k].type = "Paragraph" /\ story[k].style \in CodeStyles)
              => story[k].style = StyleOfTag(LanguageTag(lines[origin[k].first]))
    /\ \A k \in DOMAIN story :
          (story[k].type = "Paragraph" /\ taken[origin[k].last] = "code_close")
              => story[k].style \in CodeStyles
    /\ in_code_block => current_language = LanguageTag(lines[code_from])

\* C18: a JavaScript block with a body line that has a marker and the tag
\* python was emitted
C18_Witness ==
    \E k \in DOMAIN story :
        /\ story[k].type = "Paragraph"
        /\ story[k].style = "MarkdownCodeJavaScript"
        /\ origin[k].last = origin[k].first + 2
        /\ lines[origin[k].first + 1] = L_code_py
        /\ taken[origin[k].last] = "code_close"

\* The calls of _download_image made so far by the current call of convert_to_pdf
CallsOfRun == (Last(run_starts) + 1)..Len(calls)

\* C19 as stated: when a call of convert_to_pdf starts, the cache holds no
\* reference, and the first reference to an image in a run is not a cache hit.
C19_CachePerRun ==
    /\ (pc = "scan" /\ lines = <<>>) => DOMAIN image_cache = {}
    /\ \A k \in CallsOfRun :
          (\A j \in CallsOfRun : j < k => calls[j].url # calls[k].url) => ~calls[k].hit

\* C20: a failed read is fatal and nothing is started after it; a failed PDF
\* generation is fatal; convert returns only after read, parse and PDF
\* generation have succeeded, in that order.
C20_FatalFailures ==
    /\ (conv_log # <<>> /\ conv_log[1] = "read_failed")
          => /\ conv_pc = "raised"
             /\ conv_exc # None
             /\ conv_log = <<"read_failed">>
             /\ pc = "idle"
    /\ (conv_log # <<>> /\ Last(conv_log) = "generate_failed")
          => (conv_pc = "raised" /\ conv_exc # None)
    /\ conv_pc = "returned"
          => (conv_log = <<"read_ok", "parse_ok", "generate_ok">> /\ pc = "done")
    /\ pc # "idle" => (Len(conv_log) >= 2 /\ SubSeq(conv_log, 1, 2) = <<"read_ok", "parse_ok">>)
    /\ conv_pc \in {"parse", "generate"} => conv_log[1] = "read_ok"

\* C20: the build of a story with an element failed, and convert raised
C20_Witness ==
    /\ conv_pc = "raised"
    /\ conv_log = <<"read_ok", "parse_ok", "generate_failed">>
    /\ conv_exc.message = "Failed to generate PDF"
    /\ story # <<>>

------------------------------------------------------------------------------
(* mathjax_processor.py: math expressions are replaced by image references *)

\* The most pieces of an input text of replace_math_with_images
MaxExprs == 2

S_dollar        == <<"$">>
S_dollars       == <<"$", "$">>
S_paren         == <<"\\", "(">>
S_paren_end     == <<"\\", ")">>
S_bracket       == <<"\\", "[">>
S_bracket_end   == <<"\\", "]">>
S_data_svg      == S_data \o <<"i","m","a","g","e","/","s","v","g","+","x","m","l",";",
                               "b","a","s","e","6","4",",">>
S_Math_failed   == S_Math \o <<" ","(","f","a","i","l","e","d",")",":"," ">>
S_Math_colon    == S_Math \o <<":"," ">>
S_dots          == <<".",".",".">>

\* s[:n]
Take(s, n) == SubSeq(s, 1, IF n < Len(s) THEN n ELSE Len(s))

\* Lines 43-45, 57-59: one element of the list extract_math_expressions returns
Expression(full_match, latex_code, math_type) ==
    [full_match |-> full_match, latex_code |-> latex_code, math_type |-> math_type]

\* Lines 22, 24, 37-45: re.finditer of open \n?(.*?)\n? close with re.DOTALL on s
\* from index i. The lazy group ends at the first `close` after `open`, and
\* strip() removes the optional line feeds the pattern leaves out of the group.
RECURSIVE FindBlocks(_, _, _, _)
FindBlocks(s, open, close, i) ==
    LET j == Find(s, open, i)
        k == IF j = 0 THEN 0 ELSE Find(s, close, j + Len(open))
    IN  IF k = 0 THEN <<>>
        ELSE <<Expression(SubSeq(s, j, k + Len(close) - 1),
                          Strip(SubSeq(s, j + Len(open), k - 1)), "block")>>
             \o FindBlocks(s, open, close, k + Len(close))

\* Lines 21, 23: the index of the last character of the match of an inline
\* pattern that starts at s[j], 0 when there is none.
\* inline_dollar \$([^$\n]+)\$ : the group runs to the first "$" or line feed,
\* which has to be a "$"; inline_paren \\\(([^)]+)\\\) : the group runs to the
\* first ")", which has to follow a backslash. The group is never empty.
InlineEnd(s, pattern, j) ==
    IF pattern = "inline_dollar"
    THEN IF s[j] # "$" THEN 0
         ELSE LET k == FindChar(s, {"$", NL}, j + 1)
              IN  IF k > j + 1 /\ s[k] = "$" THEN k ELSE 0
    ELSE IF ~StartsWithAt(s, S_paren, j) THEN 0
         ELSE LET k == FindChar(s, {")"}, j + 2)
              IN  IF k > j + 3 /\ s[k - 1] = "\\" THEN k ELSE 0

\* Lines 52-59: re.finditer of an inline pattern on s from index i
RECURSIVE FindInline(_, _, _)
FindInline(s, pattern, i) ==
    LET starts == {j \in i..Len(s) : InlineEnd(s, pattern, j) # 0}
        j == CHOOSE m \in starts : \A n \in starts : m <= n
        k == InlineEnd(s, pattern, j)
        d == IF pattern = "inline_dollar" THEN 1 ELSE 2
    IN  IF starts = {} THEN <<>>
        ELSE <<Expression(SubSeq(s, j, k), Strip(SubSeq(s, j + d, k - d)), "inline")>>
             \o FindInline(s, pattern, k + 1)

\* Lines 47-50: every occurrence of every block expression is removed
RECURSIVE RemoveAll(_, _)
RemoveAll(text, expressions) ==
    IF expressions = <<>> THEN text
    ELSE RemoveAll(Replace(text, expressions[1].full_match, <<>>), Tail(expressions))

\* Lines 28-61
extract_math_expressions(text) ==
    LET blocks == FindBlocks(text, S_dollars, S_dollars, 1)
                  \o FindBlocks(text, S_bracket, S_bracket_end, 1)
        temp_text == RemoveAll(text, blocks)
    IN  blocks \o FindInline(temp_text, "inline_dollar", 1)
               \o FindInline(temp_text, "inline_paren", 1)

\* Line 180: the key of the sort, text.find(x[0]) (0: not found, as -1 in Python)
SortKey(text, x) == Find(text, x.full_match, 1)

\* x is put behind the elements of the sorted list whose key is not less
RECURSIVE InsertByKey(_, _, _)
InsertByKey(text, sorted, x) ==
    IF sorted = <<>> THEN <<x>>
    ELSE IF SortKey(text, sorted[1]) >= SortKey(text, x)
         THEN <<sorted[1]>> \o InsertByKey(text, Tail(sorted), x)
         ELSE <<x>> \o sorted

\* Line 180: list.sort(key, reverse=True), which is stable
RECURSIVE SortReverse(_, _, _)
SortReverse(text, expressions, sorted) ==
    IF expressions = <<>> THEN sorted
    ELSE SortReverse(text, Tail(expressions), InsertByKey(text, sorted, expressions[1]))

\* Lines 101-102, 141-142, 169-170: a data URL of an SVG document. The base64
\* text is one opaque character that names the document it encodes.
SvgDataUrl(document) == S_data_svg \o <<document>>

\* Lines 152-170
create_math_placeholder(latex_code, is_inline) ==
    SvgDataUrl(IF is_inline THEN "b64(inline placeholder)" ELSE "b64(block placeholder)")

\* Lines 195-196, 203-204: ![alt_text](url)
ImageMarkdown(alt_text, url) == <<"!", "[">> \o alt_text \o <<"]", "(">> \o url \o <<")">>

\* Lines 193-204: the image reference of an expression; svg_data_url is None
\* when render_math_to_svg returned None
image_markdown(x, svg_data_url) ==
    IF svg_data_url # None
    THEN ImageMarkdown(S_Math_colon \o (IF Len(x.latex_code) > 50
                                        THEN Take(x.latex_code, 50) \o S_dots
                                        ELSE x.latex_code),
                       svg_data_url)
    ELSE ImageMarkdown(S_Math_failed \o Take(x.latex_code, 30) \o S_dots,
                       create_math_placeholder(x.latex_code, x.math_type = "inline"))

\* The pieces the input texts are made of: $x$, $$x$$, \(x\), \[x\] and a word
MathPieces ==
    { <<"$","x","$">>, <<"$","$","x","$","$">>, <<"\\","(","x","\\",")">>,
      <<"\\","[","x","\\","]">>, <<"a">> }

\* The input texts: at most MaxExprs pieces with a space between them
MathTexts ==
    UNION { { Join(parts, <<" ">>) : parts \in [1..n -> MathPieces] } : n \in 0..MaxExprs }

\* Lines 95-102: what the GET of the first provider does: it raises, or answers
\* with another status than 200 or without content, or with a body that is
\* not an SVG document, or with an SVG document
FirstOutcomes == {"exception", "status", "not_svg", "svg"}

\* Lines 132-135: what the POST to the second provider does: it raises, or
\* answers with another status than 200, or without the success line, or
\* with the success line and the URL of the image
PostOutcomes == {"exception", "status", "error", "ok"}

\* Lines 137-139: what the GET of the image of the second provider does
FetchOutcomes == {"exception", "status", "ok"}

\* One request and what came of it
Contact(provider, outcome) == [provider |-> provider, outcome |-> outcome]

\* The record math_log keeps of an expression the loop has processed: the
\* requests made for it, the image reference it got, and whether
\* its full_match was in the text when text.replace was called
Processed(x, contacts, markdown, text) ==
    [expression |-> x, contacts |-> contacts, markdown |-> markdown,
     placeholder |-> markdown = image_markdown(x, None),
     found |-> Contains(text, x.full_match)]

\* replace_math_with_images(text) is called
InitMath ==
    /\ pc = "idle"
    /\ NewState
    /\ CleanIdle
    /\ FitIdle
    /\ ConvertIdle
    /\ math_pc = "call"
    /\ math_src \in MathTexts
    /\ math_text = math_src
    /\ math_todo = <<>>
    /\ math_contacts = <<>>
    /\ math_log = <<>>

\* Lines 177-182: the expressions are extracted and sorted, and the loop starts
ExtractExpressions ==
    /\ math_pc = "call"
    /\ math_todo' = SortReverse(math_text, extract_math_expressions(math_text), <<>>)
    /\ math_pc' = IF math_todo' = <<>> THEN "returned" ELSE "first"
    /\ UNCHANGED <<math_src, math_text, math_contacts, math_log>>
    /\ UNCHANGED <<scan_vars, clean_vars, fit_vars, run_starts, conv_vars>>

\* Lines 187-210, 221: render_math_to_svg has returned svg_data_url after the
\* requests `contacts`; the reference is built and replaces every occurrence
\* of full_match, and the loop goes on or the function returns
ReplaceExpression(svg_data_url, contacts) ==
    LET x == math_todo[1]
        markdown == image_markdown(x, svg_data_url)
    IN  /\ math_text' = Replace(math_text, x.full_match, markdown)
        /\ math_log' = Append(math_log, Processed(x, contacts, markdown, math_text))
        /\ math_todo' = Tail(math_todo)
        /\ math_contacts' = <<>>
        /\ math_pc' = IF Tail(math_todo) = <<>> THEN "returned" ELSE "first"
        /\ UNCHANGED math_src

\* Lines 92-110: render_math_to_svg asks the first provider
FirstProvider(outcome) ==
    /\ math_pc = "first"
    /\ LET contacts == Append(math_contacts, Contact("first", outcome))
       IN  IF outcome = "svg"
           THEN ReplaceExpression(SvgDataUrl("b64(svg of the first provider)"), contacts)
           ELSE /\ math_pc' = "second"
                /\ math_contacts' = contacts
                /\ UNCHANGED <<math_src, math_text, math_todo, math_log>>
    /\ UNCHANGED <<scan_vars, clean_vars, fit_vars, run_starts, conv_vars>>

\* Lines 113-135, 144-149: _try_alternative_service posts the formula to the second provider
SecondProvider(outcome) ==
    /\ math_pc = "second"
    /\ LET contacts == Append(math_contacts, Contact("second", outcome))
       IN  IF outcome = "ok"
           THEN /\ math_pc' = "fetch"
                /\ math_contacts' = contacts
                /\ UNCHANGED <<math_src, math_text, math_todo, math_log>>
           ELSE ReplaceExpression(None, contacts)
    /\ UNCHANGED <<scan_vars, clean_vars, fit_vars, run_starts, conv_vars>>

\* Lines 136-149: _try_alternative_service downloads the image the second
\* provider made; its body is taken as it is
FetchSvg(outcome) ==
    /\ math_pc = "fetch"
    /\ LET contacts == Append(math_contacts, Contact("second_image", outcome))
       IN  IF outcome = "ok"
           THEN ReplaceExpression(SvgDataUrl("b64(body of the second provider)"), contacts)
           ELSE ReplaceExpression(None, contacts)
    /\ UNCHANGED <<scan_vars, clean_vars, fit_vars, run_starts, conv_vars>>

NextMath ==
    \/ ExtractExpressions
    \/ \E outcome \in FirstOutcomes : FirstProvider(outcome)
    \/ \E outcome \in PostOutcomes : SecondProvider(outcome)
    \/ \E outcome \in FetchOutcomes : FetchSvg(outcome)

SpecMath == InitMath /\ [][NextMath]_vars

\* The run of replace_math_with_images is over
MathReturned == math_pc = "returned"

------------------------------------------------------------------------------
(* Properties of replace_math_with_images *)

\* The requests made for every expression so far, the current one included
ContactRuns == {math_log[k].contacts : k \in DOMAIN math_log} \cup {math_contacts}

\* The requests `contacts` show that the first provider failed
FirstFailed(contacts) ==
    /\ contacts # <<>>
    /\ contacts[1].provider = "first"
    /\ contacts[1].outcome # "svg"

\* The requests `contacts` show that the second provider failed
SecondFailed(contacts) ==
    /\ Len(contacts) >= 2
    /\ contacts[2].provider = "second"
    /\ \/ contacts[2].outcome # "ok"
       \/ /\ Len(contacts) = 3
          /\ contacts[3].provider = "second_image"
          /\ contacts[3].outcome # "ok"

\* The second provider is contacted only after the first provider failed
SecondAfterFirstFailed ==
    \A contacts \in ContactRuns : \A i \in DOMAIN contacts :
        contacts[i].provider # "first" => (i >= 2 /\ FirstFailed(contacts))

\* The local placeholder is used only after both providers failed
PlaceholderAfterBothFailed ==
    \A k \in DOMAIN math_log :
        math_log[k].placeholder
            => (FirstFailed(math_log[k].contacts) /\ SecondFailed(math_log[k].contacts))

\* Expression k of the loop was replaced in the text by an image reference:
\* its text.replace found it, or found an equal expression before
ReplacedByImage(k) ==
    \E j \in 1..k :
        /\ math_log[j].expression.full_match = math_log[k].expression.full_match
        /\ math_log[j].found

\* When the function has returned, the loop has processed every extracted
\* expression and every one of them was replaced by an image reference
EveryExpressionReplaced ==
    MathReturned
        => /\ Len(math_log) = Len(extract_math_expressions(math_src))
           /\ \A k \in DOMAIN math_log : ReplacedByImage(k)

\* C21 as stated: the second provider is contacted only after the first one
\* failed, the placeholder is used only after both failed, and whatever the
\* providers do the run ends with every extracted expression replaced in the
\* text by an image reference.
C21_ThreeTierFallback ==
    /\ SecondAfterFirstFailed
    /\ PlaceholderAfterBothFailed
    /\ EveryExpressionReplaced

------------------------------------------------------------------------------
(* Properties of the layout scanner, continued *)

\* The step flushes the open paragraph: a boundary line is read or the input ends
FlushesParagraph ==
    /\ pc = "scan"
    /\ current_paragraph # <<>>
    /\ (current_paragraph' = <<>> \/ pc' = "done")

\* The elements the step appends for lines read before it: the flushed paragraph
FlushedElements == {k \in DOMAIN story' : k > Len(story) /\ origin'[k].last <= Len(lines)}

Acquired == {calls[k].url : k \in {j \in DOMAIN calls : calls[j].ok}}

\* C23: the cache holds exactly the references whose acquisition succeeded:
\* its keys are the reference strings of the successful calls of
\* _download_image, and a reference whose every acquisition failed is no key.
C23_CacheExactlyAcquired ==
    /\ DOMAIN image_cache = Acquired
    /\ \A k \in DOMAIN calls :
          (\A j \in DOMAIN calls : calls[j].url = calls[k].url => ~calls[j].ok)
              => calls[k].url \notin DOMAIN image_cache

\* C23: a fetch failed, a data URL failed to decode and a fetch succeeded; the
\* cache holds the reference of the fetch that succeeded and nothing else
C23_Witness ==
    /\ \E k \in DOMAIN calls : ~calls[k].ok /\ calls[k].io = "fetch"
    /\ \E k \in DOMAIN calls : ~calls[k].ok /\ calls[k].io = "decode"
    /\ \E k \in DOMAIN calls :
          /\ calls[k].ok /\ calls[k].io = "fetch"
          /\ DOMAIN image_cache = {calls[k].url}

\* The step reads a line while a code block is open and the block stays open
ReadsInsideCode == ReadsLine /\ in_code_block /\ in_code_block'

\* C24: while a code block is open, reading a line that does not close it
\* leaves the Story and the paragraph accumulator as they are, acquires no
\* image, and does nothing but add the line, unless it is blank, to the code
\* body: a heading, image, blockquote, table or text line inside the block
\* produces no element of its own.
C24_OpenCodeKeepsStory ==
    [][ReadsInsideCode =>
          /\ story' = story
          /\ current_paragraph' = current_paragraph
          /\ calls' = calls
          /\ current_code_block' = IF LineRead = <<>> THEN current_code_block
                                   ELSE Append(current_code_block, LineRead)
       ]_vars

\* C24: a heading line and an image line were read inside an open code block;
\* both are in the code body and the Story is empty
C24_Witness ==
    /\ in_code_block
    /\ lines = <<L_code_js, L_h2, L_img_url>>
    /\ taken = <<"code_marker", "code_body", "code_body">>
    /\ current_code_block = <<<<"x">>, L_h2, L_img_url>>
    /\ story = <<>>
    /\ current_paragraph = <<>>
    /\ calls = <<>>

\* The step reads an image line outside a code block
ReadsImageLine == ReadsLine /\ Last(taken') = "image"

\* The elements the step appends for the line it reads
LineElements == {k \in DOMAIN story' : k > Len(story) /\ origin'[k].first = Len(lines')}

\* C25: an image line read outside a code block appends, besides the flushed
\* paragraph, at most one element, and that element is an image; the line
\* makes one acquisition at most, and neither its text nor a further img tag
\* on it is added to the paragraph accumulator.
C25_OneImagePerLine ==
    [][ReadsImageLine =>
          /\ ~in_code_block
          /\ SubSeq(story', 1, Len(story)) = story
          /\ DOMAIN story' = DOMAIN story \cup FlushedElements \cup LineElements
          /\ Cardinality(FlushedElements) <= 1
          /\ Cardinality(LineElements) <= 1
          /\ \A k \in LineElements : k = Len(story') /\ story'[k].type = "RLImage"
          /\ Len(calls') <= Len(calls) + 1
          /\ current_paragraph' = <<>>
       ]_vars

\* C25: a line with text and two img tags was read after a paragraph line; the
\* Story holds the paragraph and one image, the first of the line, and one
\* acquisition was made
C25_Witness ==
    /\ lines = <<L_p, L_img_two>>
    /\ Len(story) = 2
    /\ story[1] = Paragraph(<<"a">>, "Normal")
    /\ story[2].type = "RLImage"
    /\ story[2].src = <<"d","a","t","a",":",",","i","V","B","O","R","w","=","=">>
    /\ Len(calls) = 1
    /\ current_paragraph = <<>>

====
